---- MODULE Spec2Model ----
(***************************************************************************)
(* mdbook-blox: block extraction, numbering and cross-reference            *)
(* resolution (src/src/process/mod.rs, src/src/parse.rs, src/src/lib.rs).  *)
(*                                                                         *)
(* Conventions.  Option<T> is a sequence of length at most one: None is    *)
(* <<>> and Some(x) is <<x>>.  A chapter's text is a sequence of bytes,    *)
(* each byte a record with a field b; offsets are 0-based and spans are    *)
(* half open, as in Rust.  Strings the program formats are TLA+ strings    *)
(* built with \o; text the program scans character by character (a fence   *)
(* header, a raw label) is a sequence of one-character strings.            *)
(***************************************************************************)
EXTENDS Integers, Sequences, FiniteSets, TLC

VARIABLES
    book,            \* the Book handed to BloxPreProcessor::run: its sections
    pc,              \* position of the run inside run / BloxProcessor::process
    cur,             \* index in book of the section the current loop is at
    pos,             \* index of the content item number_items is at
    anonymous_blox,  \* BloxProcessor.anonymous_blox: Vec<Blox>
    labelled_blox,   \* BloxProcessor.labelled_blox: HashMap<String, Blox>
    section_items,   \* BloxProcessor.section_items: HashMap<usize, Vec<BookContentItem>>,
                     \* each item kept with the span process_section found it at
    number_map,      \* the NumberMap of number_items
    content_string,  \* the stringified section handed to replace_refs
    new_content,     \* HashMap<usize, String> built by process
    log,             \* the warnings logged so far (log::warn!)
    result           \* what run returned: "none" while running, "ok", "err"

vars == <<book, pc, cur, pos, anonymous_blox, labelled_blox, section_items,
          number_map, content_string, new_content, log, result>>

----------------------------------------------------------------------------
(* Option, strings and character sequences *)

None == <<>>
Some(x) == <<x>>
IsSome(o) == Len(o) > 0
IsNone(o) == Len(o) = 0
UnwrapOr(o, d) == IF Len(o) = 0 THEN d ELSE o[1]

RECURSIVE Concat(_)
\* the String made of a sequence of characters
Concat(chars) ==
    IF chars = <<>> THEN "" ELSE chars[1] \o Concat(Tail(chars))

RECURSIVE TrimStart(_)
TrimStart(s) ==
    IF s # <<>> /\ s[1] = " " THEN TrimStart(Tail(s)) ELSE s

RECURSIVE TrimEnd(_)
TrimEnd(s) ==
    IF s # <<>> /\ s[Len(s)] = " " THEN TrimEnd(SubSeq(s, 1, Len(s) - 1)) ELSE s

\* str::trim
Trim(s) == TrimEnd(TrimStart(s))

\* str::starts_with
StartsWith(s, prefix) ==
    Len(s) >= Len(prefix) /\ SubSeq(s, 1, Len(prefix)) = prefix

\* str::split_once(' '): None, or Some of the text before and after the
\* first space
SplitOnce(s) ==
    LET hits == {i \in 1..Len(s) : s[i] = " "}
    IN  IF hits = {} THEN None
        ELSE LET i == CHOOSE j \in hits : \A k \in hits : j <= k
             IN  Some([before |-> SubSeq(s, 1, i - 1),
                       after |-> SubSeq(s, i + 1, Len(s))])

----------------------------------------------------------------------------
(* Config (src/src/config.rs) *)

PREPROCESSOR_NAME == <<"b", "l", "o", "x">>
CODE_BLOCK_KEYWORD == PREPROCESSOR_NAME

\* ConfigDefaults::default
ConfigDefaults ==
    [prefix_number |-> TRUE, hide_name |-> FALSE, hide_header |-> FALSE,
     numbered |-> TRUE]

\* The configuration of the run: the two environments of default_test_config;
\* "figure", which counts across the whole book; "plain", which sets
\* hide_name only; "bare", which sets hide_header only.
config ==
    [defaults |-> ConfigDefaults,
     environments |->
        [k \in {"alert", "exercise", "figure", "plain", "bare"} |->
            CASE k = "plain" ->
                    [name |-> "Plain", prefix_number |-> None,
                     hide_name |-> Some(TRUE), hide_header |-> None,
                     numbered |-> None]
              [] k = "bare" ->
                    [name |-> "Bare", prefix_number |-> None,
                     hide_name |-> None, hide_header |-> Some(TRUE),
                     numbered |-> None]
              [] k = "alert" ->
                    [name |-> "Alert", prefix_number |-> None,
                     hide_name |-> None, hide_header |-> None,
                     numbered |-> Some(FALSE)]
              [] k = "exercise" ->
                    [name |-> "Exercise", prefix_number |-> None,
                     hide_name |-> None, hide_header |-> None,
                     numbered |-> None]
              [] k = "figure" ->
                    [name |-> "Figure", prefix_number |-> Some(FALSE),
                     hide_name |-> None, hide_header |-> None,
                     numbered |-> None]]]

Environments == DOMAIN config.environments

has_environment(cfg, key) == key \in DOMAIN cfg.environments

\* Config::get
ConfigGet(cfg, key) ==
    IF key \in DOMAIN cfg.environments THEN Some(cfg.environments[key]) ELSE None

\* Config::group_str, on an environment that exists
group_str(cfg, key) == Concat(CODE_BLOCK_KEYWORD) \o "-" \o key

ConfigName(cfg, key) ==
    IF IsSome(ConfigGet(cfg, key)) THEN ConfigGet(cfg, key)[1].name
    ELSE "ENVIRONMENT"

prefix_number(cfg, key) ==
    IF IsSome(ConfigGet(cfg, key))
    THEN UnwrapOr(ConfigGet(cfg, key)[1].prefix_number, cfg.defaults.prefix_number)
    ELSE cfg.defaults.prefix_number

ConfigHideName(cfg, key) ==
    IF IsSome(ConfigGet(cfg, key))
    THEN UnwrapOr(ConfigGet(cfg, key)[1].hide_name, cfg.defaults.hide_name)
    ELSE cfg.defaults.hide_name

\* Config::hide_header reads the environment's hide_name field
ConfigHideHeader(cfg, key) ==
    IF IsSome(ConfigGet(cfg, key))
    THEN UnwrapOr(ConfigGet(cfg, key)[1].hide_name, cfg.defaults.hide_header)
    ELSE cfg.defaults.hide_header

ConfigNumbered(cfg, key) ==
    IF IsSome(ConfigGet(cfg, key))
    THEN UnwrapOr(ConfigGet(cfg, key)[1].numbered, cfg.defaults.numbered)
    ELSE cfg.defaults.numbered

\* to_toml_ascii: keeps ASCII letters, digits, '-' and '_'
AsciiKept ==
    {"a", "b", "c", "m", "A", "Z", "0", "1", "2", "9", "-", "_"}

to_toml_ascii(chars) ==
    Concat(SelectSeq(chars, LAMBDA c : c \in AsciiKept))

----------------------------------------------------------------------------
(* Blox (src/src/parse.rs) *)

\* CodeBlockOptions::default
CodeBlockOptionsDefault ==
    [title |-> None, footer |-> None, label |-> None, defer_rendering |-> FALSE,
     hide_name |-> None, hide_header |-> None, numbered |-> None]

\* CodeBlockOptions with the given fields set
Options(label, title, defer_rendering, hide_name, hide_header, numbered) ==
    [title |-> title, footer |-> None, label |-> label,
     defer_rendering |-> defer_rendering, hide_name |-> hide_name,
     hide_header |-> hide_header, numbered |-> numbered]

\* The inline option texts of the model and what toml::from_str makes of
\* "options = { <text> }".  A label's text is kept character by character.
InlineTomlTable ==
    { [text |-> "label = 'a'",
       options |-> Options(Some(<<"a">>), None, FALSE, None, None, None)],
      [text |-> "label = 'b'",
       options |-> Options(Some(<<"b">>), None, FALSE, None, None, None)],
      [text |-> "label = 'a', defer_rendering = true",
       options |-> Options(Some(<<"a">>), None, TRUE, None, None, None)],
      [text |-> "numbered = false",
       options |-> Options(None, None, FALSE, None, None, Some(FALSE))],
      [text |-> "numbered = true",
       options |-> Options(None, None, FALSE, None, None, Some(TRUE))],
      [text |-> "defer_rendering = true",
       options |-> Options(None, None, TRUE, None, None, None)],
      [text |-> "label = '!'",
       options |-> Options(Some(<<"!">>), None, FALSE, None, None, None)],
      [text |-> "label = 'a b!'",
       options |-> Options(Some(<<"a", " ", "b", "!">>), None, FALSE, None, None,
                           None)],
      [text |-> "hide_header = true",
       options |-> Options(None, None, FALSE, None, Some(TRUE), None)],
      [text |-> "hide_header = false",
       options |-> Options(None, None, FALSE, None, Some(FALSE), None)],
      [text |-> "hide_name = true",
       options |-> Options(None, None, FALSE, Some(TRUE), None, None)],
      [text |-> "hide_name = false",
       options |-> Options(None, None, FALSE, Some(FALSE), None, None)],
      [text |-> "hide_name = true, numbered = true",
       options |-> Options(None, None, FALSE, Some(TRUE), None, Some(TRUE))],
      [text |-> "hide_header = true, numbered = true",
       options |-> Options(None, None, FALSE, None, Some(TRUE), Some(TRUE))],
      [text |-> "title = 'T'",
       options |-> Options(None, Some("T"), FALSE, None, None, None)],
      [text |-> "label = 'a', title = 'T'",
       options |-> Options(Some(<<"a">>), Some("T"), FALSE, None, None, None)],
      [text |-> "label = 'a', hide_name = true",
       options |-> Options(Some(<<"a">>), None, FALSE, Some(TRUE), None, None)],
      [text |-> "label = 'a', title = 'T', hide_name = true",
       options |-> Options(Some(<<"a">>), Some("T"), FALSE, Some(TRUE), None,
                           None)],
      [text |-> "label = 'a', numbered = false",
       options |-> Options(Some(<<"a">>), None, FALSE, None, None, Some(FALSE))],
      [text |-> "label = 'a', title = 'T', numbered = false",
       options |-> Options(Some(<<"a">>), Some("T"), FALSE, None, None,
                           Some(FALSE))],
      [text |-> "label = 'a', title = 'T', defer_rendering = true",
       options |-> Options(Some(<<"a">>), Some("T"), TRUE, None, None, None)],
      [text |-> "title = 'T', hide_header = true",
       options |-> Options(None, Some("T"), FALSE, None, Some(TRUE), None)],
      [text |-> "title = 'T', hide_name = true",
       options |-> Options(None, Some("T"), FALSE, Some(TRUE), None, None)] }

\* toml::from_str on the texts of the table; a text outside it does not parse
InlineToml ==
    [t \in {e.text : e \in InlineTomlTable} |->
        (CHOOSE e \in InlineTomlTable : e.text = t).options]

\* CodeBlockOptions::from_string
from_string(options) ==
    IF Len(options) = 1 /\ options[1] \in DOMAIN InlineToml
    THEN [tag |-> "Ok", options |-> InlineToml[options[1]]]
    ELSE [tag |-> "Err", msg |-> "Failed to parse blox options"]

\* extract_content: the region without its opening fence line and without
\* its closing fence
extract_content(content) ==
    IF content[Len(content)].b = "endfence"
    THEN SubSeq(content, 2, Len(content) - 1)
    ELSE SubSeq(content, 2, Len(content))

\* a block that is numbered whatever its hide_name
BloxBuild_NameIgnored(cfg, env, content, options) ==
    LET hide_header == UnwrapOr(options.hide_header, ConfigHideHeader(cfg, env))
        hide_name == hide_header
                     \/ UnwrapOr(options.hide_name, ConfigHideName(cfg, env))
    IN  [tag |-> "Some",
         blox |-> [environment |-> env,
                   content |-> extract_content(content),
                   path |-> None,
                   title |-> options.title,
                   footer |-> options.footer,
                   label |-> IF IsSome(options.label)
                             THEN Some(to_toml_ascii(options.label[1]))
                             ELSE None,
                   defer_rendering |-> options.defer_rendering,
                   hide_header |-> hide_header,
                   hide_name |-> hide_name,
                   number |-> IF UnwrapOr(options.numbered, ConfigNumbered(cfg, env))
                              THEN Some("") ELSE None]]

\* Blox::parse, lines 85-109: the block of a registered environment env with
\* parsed options
BloxBuild(cfg, env, content, options) ==
    LET hide_header == UnwrapOr(options.hide_header, ConfigHideHeader(cfg, env))
        hide_name == hide_header
                     \/ UnwrapOr(options.hide_name, ConfigHideName(cfg, env))
        number == IF ~hide_name
                     /\ UnwrapOr(options.numbered, ConfigNumbered(cfg, env))
                  THEN Some("") ELSE None
    IN  [tag |-> "Some",
         blox |-> [environment |-> env,
                   content |-> extract_content(content),
                   path |-> None,
                   title |-> options.title,
                   footer |-> options.footer,
                   label |-> IF IsSome(options.label)
                             THEN Some(to_toml_ascii(options.label[1]))
                             ELSE None,
                   defer_rendering |-> options.defer_rendering,
                   hide_header |-> hide_header,
                   hide_name |-> hide_name,
                   number |-> number]]

\* Blox::parse, lines 80-83: `?` on the result of from_string
BloxWithOptions(cfg, env, content, parsed) ==
    IF parsed.tag = "Err" THEN parsed
    ELSE BloxBuild(cfg, env, content, parsed.options)

\* Blox::parse, lines 72-83: the two ensure! checks, then the options
BloxOfEnv(cfg, content, env, opts_str) ==
    IF env = <<>>
    THEN [tag |-> "Err", msg |-> "No blox environment specified"]
    ELSE IF ~has_environment(cfg, Concat(env))
    THEN [tag |-> "Err", msg |-> "Blox environment not defined in book.toml"]
    ELSE BloxWithOptions(cfg, Concat(env), content,
            IF IsSome(opts_str) THEN from_string(opts_str[1])
            ELSE [tag |-> "Ok", options |-> CodeBlockOptionsDefault])

\* Blox::parse, lines 67-70: split2 is rest.trim().split_once(' '); without a
\* second space the environment is rest as it stands
BloxOfRest(cfg, content, rest, split2) ==
    BloxOfEnv(cfg, content,
        IF IsSome(split2) THEN split2[1].before ELSE rest,
        IF IsSome(split2) /\ Trim(split2[1].after) # <<>>
        THEN Some(Trim(split2[1].after)) ELSE None)

\* a parse that accepts every first token the keyword starts
BloxOfSplit_AnyPrefix(cfg, content, split) ==
    IF IsNone(split) THEN [tag |-> "None"]
    ELSE BloxOfRest(cfg, content, split[1].after, SplitOnce(Trim(split[1].after)))

\* Blox::parse, lines 58-65: split is header.split_once(' ')
BloxOfSplit(cfg, content, split) ==
    IF IsNone(split) THEN [tag |-> "None"]
    ELSE IF split[1].before # CODE_BLOCK_KEYWORD THEN [tag |-> "None"]
    ELSE BloxOfRest(cfg, content, split[1].after, SplitOnce(Trim(split[1].after)))

\* Blox::parse: [tag |-> "None"], [tag |-> "Err", msg] or [tag |-> "Some", blox]
BloxParse(cfg, content, header) ==
    IF ~StartsWith(Trim(header), CODE_BLOCK_KEYWORD) THEN [tag |-> "None"]
    ELSE BloxOfSplit(cfg, content, SplitOnce(Trim(header)))

\* Blox::set_number: the block afterwards and whether a number was set
set_number(blox, number, section_number) ==
    IF IsNone(blox.number) THEN [blox |-> blox, set |-> FALSE]
    ELSE [blox |-> [blox EXCEPT !.number =
                        Some(IF IsSome(section_number)
                             THEN section_number[1] \o ToString(number)
                             ELSE ToString(number))],
          set |-> TRUE]

\* Blox::title_numbered
title_numbered(blox, cfg) ==
    IF IsNone(blox.number) THEN None
    ELSE Some(ConfigName(cfg, blox.environment) \o " " \o blox.number[1])

\* Blox::title_env
title_env(blox, cfg) ==
    IF IsNone(blox.title) THEN None
    ELSE Some(ConfigName(cfg, blox.environment) \o ": " \o blox.title[1])

\* Blox::title_full
title_full(blox, cfg) ==
    ConfigName(cfg, blox.environment)
        \o (IF IsSome(blox.number) THEN " " \o blox.number[1] ELSE "")
        \o (IF IsSome(blox.title) THEN ": " \o blox.title[1] ELSE "")

\* Blox::title_auto
title_auto(blox, cfg) ==
    IF blox.hide_name THEN blox.title ELSE Some(title_full(blox, cfg))

\* an id that joins group and label with '_'
id_str_Underscore(blox, cfg) ==
    IF ~has_environment(cfg, blox.environment) \/ IsNone(blox.label) THEN None
    ELSE Some(group_str(cfg, blox.environment) \o "_" \o blox.label[1])

\* Blox::id_str
id_str(blox, cfg) ==
    IF ~has_environment(cfg, blox.environment) \/ IsNone(blox.label) THEN None
    ELSE Some(group_str(cfg, blox.environment) \o "-" \o blox.label[1])

RECURSIVE CommonPrefixLen(_, _)
CommonPrefixLen(p, q) ==
    IF p # <<>> /\ q # <<>> /\ p[1] = q[1]
    THEN 1 + CommonPrefixLen(Tail(p), Tail(q)) ELSE 0

\* pathdiff::diff_paths on relative paths of normal components: ".." for
\* every component of base past the common prefix, then the rest of path
diff_paths(path, base) ==
    LET n == CommonPrefixLen(path, base)
    IN  [i \in 1..(Len(base) - n) |-> ".."] \o SubSeq(path, n + 1, Len(path))

RECURSIVE JoinPath(_)
\* PathBuf::into_os_string().into_string(): components joined with '/'
JoinPath(comps) ==
    IF comps = <<>> THEN ""
    ELSE IF Len(comps) = 1 THEN comps[1]
    ELSE comps[1] \o "/" \o JoinPath(Tail(comps))

\* Blox::rel_path; base.pop() drops the file name
rel_path(blox, base) ==
    IF IsNone(blox.path) THEN None
    ELSE IF blox.path[1] = base THEN Some("")
    ELSE Some(JoinPath(diff_paths(blox.path[1], SubSeq(base, 1, Len(base) - 1))))


----------------------------------------------------------------------------
(* BookContentItem (src/src/process/book_content_item.rs) *)

new_anonymous(id) == [tag |-> "AnonymousBlox", id |-> id]
new_labelled(label) == [tag |-> "LabelledBlox", label |-> label]
OtherItem(content) == [tag |-> "Other", content |-> content]
new_other_empty == OtherItem(<<>>)

\* &chapter[from..to]
Slice(chapter, from, to) == SubSeq(chapter, from + 1, to)

----------------------------------------------------------------------------
(* The chapter text and its scanners *)

MinOf(S) == CHOOSE x \in S : \A y \in S : x <= y

RECURSIVE FencedFrom(_, _)
\* pulldown_cmark's Start(CodeBlock(Fenced(header))) events with their spans:
\* a fence line opens a region that runs to its closing fence, or to the end
\* of the chapter when nothing closes it
FencedFrom(chapter, i) ==
    IF i > Len(chapter) THEN <<>>
    ELSE IF chapter[i].b = "fence"
    THEN LET closes == {j \in (i + 1)..Len(chapter) : chapter[j].b = "endfence"}
             e == IF closes = {} THEN Len(chapter) ELSE MinOf(closes)
         IN  <<[start |-> i - 1, end |-> e, header |-> chapter[i].header]>>
                \o FencedFrom(chapter, e + 1)
    ELSE FencedFrom(chapter, i + 1)

FencedEvents(chapter) == FencedFrom(chapter, 1)

RECURSIVE RenderMatchesFrom(_, _)
\* render_regex.captures_iter(text): the leftmost non-overlapping matches of
\* {{ blox-render: <label> }}, offsets relative to text
RenderMatchesFrom(text, i) ==
    IF i + 1 > Len(text) THEN <<>>
    ELSE IF text[i].b = "{{render" /\ text[i + 1].b = "}}"
    THEN <<[start |-> i - 1, end |-> i + 1, label |-> text[i].label]>>
            \o RenderMatchesFrom(text, i + 2)
    ELSE RenderMatchesFrom(text, i + 1)

RenderMatches(text) == RenderMatchesFrom(text, 1)

----------------------------------------------------------------------------
(* BloxProcessor::process_section (src/src/process/mod.rs) *)

\* a scan that takes a region whose header fails to parse for plain text
ScanEvent_ErrAsText(acc, span, region, parsed) ==
    IF parsed.tag = "Some" THEN acc
    ELSE [acc EXCEPT !.items = Append(@, [span |-> span, item |-> OtherItem(region)])]

\* process_section, lines 83-107: what one fenced region adds to acc, the
\* items found so far and the two registries; parsed is Blox::parse of it
ScanEvent(acc, span, region, parsed) ==
    IF parsed.tag = "Err" THEN [acc EXCEPT !.tag = "Err"]
    ELSE IF parsed.tag = "None"
    THEN [acc EXCEPT !.items = Append(@, [span |-> span, item |-> OtherItem(region)])]
    ELSE IF IsSome(parsed.blox.label)
    THEN [acc EXCEPT
            !.items = Append(@,
                [span |-> span,
                 item |-> IF ~parsed.blox.defer_rendering
                          THEN new_labelled(parsed.blox.label[1])
                          ELSE new_other_empty]),
            !.labelled_blox =
                [l \in DOMAIN @ \cup {parsed.blox.label[1]} |->
                    IF l = parsed.blox.label[1] THEN parsed.blox ELSE @[l]]]
    ELSE [acc EXCEPT
            !.items = Append(@, [span |-> span,
                                 item |-> new_anonymous(Len(acc.anonymous_blox))]),
            !.anonymous_blox = Append(@, parsed.blox)]

RECURSIVE ScanEvents(_, _, _, _)
\* the loop over the tokenizer's events; the first failing Blox::parse ends it
ScanEvents(cfg, chapter, events, acc) ==
    IF events = <<>> \/ acc.tag = "Err" THEN acc
    ELSE ScanEvents(cfg, chapter, Tail(events),
            ScanEvent(acc,
                [start |-> events[1].start, end |-> events[1].end],
                Slice(chapter, events[1].start, events[1].end),
                BloxParse(cfg, Slice(chapter, events[1].start, events[1].end),
                          events[1].header)))

RECURSIVE Captures(_, _, _, _)
\* the body of `for caps in render_regex.captures_iter(&chapter[last..span.start])`:
\* the matches are relative to the slice taken when the loop started, and each
\* is shifted by the value `last` has when the match is visited.  Slicing
\* chapter[last..c_start] past the end of the chapter panics.
Captures(chapter, matches, last, acc) ==
    IF matches = <<>> THEN [items |-> acc, last |-> last, panic |-> FALSE]
    ELSE
    LET c_start == matches[1].start + last
        c_end == matches[1].end + last
    IN  IF c_start > Len(chapter)
        THEN [items |-> acc, last |-> last, panic |-> TRUE]
        ELSE Captures(chapter, Tail(matches), c_end,
                (IF c_start > last
                 THEN Append(acc, [span |-> [start |-> last, end |-> c_start],
                                   item |-> OtherItem(Slice(chapter, last, c_start))])
                 ELSE acc)
                \o <<[span |-> [start |-> c_start, end |-> c_end],
                      item |-> new_labelled(matches[1].label)]>>)

\* a turn that leaves the text before the region out
GapClose_NoLiteral(chapter, span, c) ==
    IF c.panic \/ c.last > span.start THEN [items |-> c.items, panic |-> TRUE]
    ELSE [items |-> c.items, panic |-> FALSE]

\* the end of one turn of `for (span, _) in items.iter()`: c is what the
\* captures loop left.  chapter[last..span.start] with last > span.start panics.
GapClose(chapter, span, c) ==
    IF c.panic \/ c.last > span.start THEN [items |-> c.items, panic |-> TRUE]
    ELSE [items |-> IF c.last < span.start
                    THEN Append(c.items,
                            [span |-> [start |-> c.last, end |-> span.start],
                             item |-> OtherItem(Slice(chapter, c.last, span.start))])
                    ELSE c.items,
          panic |-> FALSE]

RECURSIVE GapLoop(_, _, _, _)
\* `for (span, _) in items.iter()`: fills the gap before each region, then
\* moves last to the region's end
GapLoop(chapter, spans, last, acc) ==
    IF spans = <<>> \/ acc.panic THEN acc
    ELSE IF last > spans[1].start THEN [acc EXCEPT !.panic = TRUE]
    ELSE GapLoop(chapter, Tail(spans), spans[1].end,
            GapClose(chapter, spans[1],
                Captures(chapter,
                         RenderMatches(Slice(chapter, last, spans[1].start)),
                         last, acc.items)))

\* items.sort_by(|a, b| a.0.start.cmp(&b.0.start)): a stable sort.  The item
\* at place i comes after the items that start earlier and after the items
\* before it that start at the same offset.
SortByStart(items) ==
    LET n == Len(items)
        rank(i) == Cardinality({j \in 1..n :
                        \/ items[j].span.start < items[i].span.start
                        \/ /\ items[j].span.start = items[i].span.start
                           /\ j < i}) + 1
    IN  [k \in 1..n |-> items[CHOOSE i \in 1..n : rank(i) = k]]

\* a sort that keeps the items of empty span
KeepItems_WithEmpty(scanned, items, gaps) ==
    IF gaps.panic THEN [tag |-> "Panic"]
    ELSE [tag |-> "Ok",
          anonymous_blox |-> scanned.anonymous_blox,
          labelled_blox |-> scanned.labelled_blox,
          spanned |-> SortByStart(items \o gaps.items)]

\* process_section, lines 146-155: sort, drop the empty spans
KeepItems(scanned, items, gaps) ==
    IF gaps.panic THEN [tag |-> "Panic"]
    ELSE [tag |-> "Ok",
          anonymous_blox |-> scanned.anonymous_blox,
          labelled_blox |-> scanned.labelled_blox,
          spanned |-> SelectSeq(SortByStart(items \o gaps.items),
                                LAMBDA it : it.span.start < it.span.end)]

\* process_section, lines 111-144: items is what the events gave, with the
\* special item at the end of the chapter
FillGaps(chapter, scanned, items) ==
    KeepItems(scanned, items,
        GapLoop(chapter, [i \in 1..Len(items) |-> items[i].span], 0,
                [items |-> <<>>, panic |-> FALSE]))

\* process_section after the loop over the events
Assemble(chapter, scanned) ==
    IF scanned.tag = "Err" THEN [tag |-> "Err"]
    ELSE FillGaps(chapter, scanned,
            Append(scanned.items,
                   [span |-> [start |-> Len(chapter), end |-> Len(chapter)],
                    item |-> new_other_empty]))

\* process_section on one chapter, from registries anon and lab:
\* tag "Ok" with the registries afterwards and the (span, item) pairs kept,
\* tag "Err" when a Blox::parse fails, tag "Panic" when a slice is out of range
process_section(cfg, anon, lab, chapter) ==
    Assemble(chapter,
        ScanEvents(cfg, chapter, FencedEvents(chapter),
            [tag |-> "Ok", items |-> <<>>, anonymous_blox |-> anon,
             labelled_blox |-> lab]))

----------------------------------------------------------------------------
(* NumberMap (src/src/process/number_map.rs) *)

\* NumberMap::new
NumberMapNew(cfg) == [env \in DOMAIN cfg.environments |-> 1]

\* reset that leaves every counter where it is
NumberMapReset_Keeps(nm, cfg) == nm

\* NumberMap::reset
NumberMapReset(nm, cfg) ==
    [env \in DOMAIN nm |-> IF prefix_number(cfg, env) THEN 1 ELSE nm[env]]

\* a map whose counters labelled blocks read but do not advance
set_blox_LabelledFree(nm, blox, section_number) ==
    LET r == set_number(blox, nm[blox.environment], section_number)
    IN  [number_map |-> IF r.set /\ IsNone(blox.label)
                        THEN [nm EXCEPT ![blox.environment] = @ + 1]
                        ELSE nm,
         blox |-> r.blox]

\* NumberMap::set_blox: the map and the block afterwards
set_blox(nm, blox, section_number) ==
    LET r == set_number(blox, nm[blox.environment], section_number)
    IN  [number_map |-> IF r.set
                        THEN [nm EXCEPT ![blox.environment] = @ + 1]
                        ELSE nm,
         blox |-> r.blox]

----------------------------------------------------------------------------
(* BloxRender (src/src/render.rs) and BookContentItem::to_html *)

\* a header that leaves the number out
RenderHeader_NoNumber(cfg, blox) ==
    IF blox.hide_header THEN None
    ELSE IF blox.hide_name THEN blox.title
    ELSE Some(ConfigName(cfg, blox.environment)
              \o (IF IsSome(blox.title) THEN ": " \o blox.title[1] ELSE ""))

\* BloxRender::header, reading the number the numbering pass stored
RenderHeader(cfg, blox) ==
    IF blox.hide_header THEN None
    ELSE
    LET pfx_title ==
            (IF ~blox.hide_name THEN <<ConfigName(cfg, blox.environment)>> ELSE <<>>)
            \o (IF IsSome(blox.number) THEN <<blox.number[1]>> ELSE <<>>)
        joined == IF Len(pfx_title) = 2 THEN pfx_title[1] \o " " \o pfx_title[2]
                  ELSE pfx_title[1]
    IN  IF pfx_title = <<>> THEN blox.title
        ELSE Some(joined \o (IF IsSome(blox.title) THEN ": " \o blox.title[1]
                             ELSE ""))

\* BloxRender::html: the markup of one block, kept as one byte of the output
RenderHtml(cfg, blox) ==
    [b |-> "html",
     id |-> UnwrapOr(id_str(blox, cfg), ""),
     group |-> group_str(cfg, blox.environment),
     header |-> RenderHeader(cfg, blox),
     content |-> blox.content,
     footer |-> blox.footer]

\* BookContentItem::to_html; ids of anonymous blocks count from 0
to_html(item, cfg, anon_list, label_list) ==
    CASE item.tag = "AnonymousBlox" ->
            IF item.id + 1 \in DOMAIN anon_list
            THEN <<RenderHtml(cfg, anon_list[item.id + 1])>> ELSE <<>>
      [] item.tag = "LabelledBlox" ->
            IF item.label \in DOMAIN label_list
            THEN <<RenderHtml(cfg, label_list[item.label])>> ELSE <<>>
      [] item.tag = "Other" -> item.content

RECURSIVE ConcatAll(_)
\* Vec<Cow<str>>::concat
ConcatAll(parts) ==
    IF parts = <<>> THEN <<>> ELSE parts[1] \o ConcatAll(Tail(parts))

\* BloxProcessor::stringify_section
stringify_section(items, cfg, anon_list, label_list) ==
    ConcatAll([i \in 1..Len(items) |->
                    to_html(items[i].item, cfg, anon_list, label_list)])

----------------------------------------------------------------------------
(* BloxProcessor::replace_refs (src/src/process/mod.rs) *)

\* the kinds the pattern [ltnfTN]?ref matches
RefKinds == {"ref", "lref", "tref", "nref", "fref", "Tref", "Nref"}

\* replace_refs_error(label, ref_type, err): the marker it returns and the
\* warning it logs.  The parameters are named as in the source.
replace_refs_error(label, ref_type, err) ==
    [text |-> "**[??blox-" \o ref_type \o ": " \o label \o "??]**",
     warn |-> Some(err \o ": " \o label)]

markdown_link(text, link) == "[" \o text \o "](" \o link \o ")"

Resolved(text) == [text |-> text, warn |-> None]

\* the closure of replace_all on one match: the replacement text and the
\* warning logged, if any
ResolveRef(cfg, label_list, ref_type, label, chapter) ==
    IF label \notin DOMAIN label_list
    THEN replace_refs_error("Unknown blox ref", ref_type, label)
    ELSE
    LET blox == label_list[label]
        rel == IF IsSome(chapter.path) THEN rel_path(blox, chapter.path[1]) ELSE None
    IN  IF IsNone(rel)
        THEN replace_refs_error("Failed to get path to blox", ref_type, label)
        ELSE
        LET path == rel[1] \o (IF IsSome(id_str(blox, cfg))
                               THEN "#" \o id_str(blox, cfg)[1] ELSE "")
        IN  CASE ref_type = "Tref" ->
                    IF IsSome(blox.title) THEN Resolved(blox.title[1])
                    ELSE replace_refs_error("Blox does not have a title", ref_type, label)
              [] ref_type = "Nref" ->
                    IF IsSome(blox.number) THEN Resolved(blox.number[1])
                    ELSE replace_refs_error("Blox does not have a number", ref_type, label)
              [] ref_type = "lref" -> Resolved(path)
              [] ref_type = "tref" ->
                    IF IsSome(title_env(blox, cfg))
                    THEN Resolved(markdown_link(title_env(blox, cfg)[1], path))
                    ELSE replace_refs_error("Blox does not have a title", ref_type, label)
              [] ref_type = "nref" ->
                    IF IsSome(title_numbered(blox, cfg))
                    THEN Resolved(markdown_link(title_numbered(blox, cfg)[1], path))
                    ELSE replace_refs_error("Blox does not have a number", ref_type, label)
              [] ref_type = "fref" ->
                    Resolved(markdown_link(title_full(blox, cfg), path))
              [] OTHER ->
                    IF IsSome(title_auto(blox, cfg))
                    THEN Resolved(markdown_link(title_auto(blox, cfg)[1], path))
                    ELSE replace_refs_error("Blox does not have a title", ref_type, label)

\* whether the reference pattern matches at byte i of content
RefMatchAt(content, i) ==
    /\ i + 1 <= Len(content)
    /\ content[i].b = "{{ref"
    /\ content[i].kind \in RefKinds
    /\ content[i + 1].b = "}}"

RECURSIVE ReplaceFrom(_, _, _, _, _)
\* regex.replace_all(&content, ...): every match gives way to its replacement
ReplaceFrom(cfg, label_list, content, chapter, i) ==
    IF i > Len(content) THEN <<>>
    ELSE IF RefMatchAt(content, i)
    THEN <<[b |-> "str",
            s |-> ResolveRef(cfg, label_list, content[i].kind, content[i].label,
                             chapter).text]>>
            \o ReplaceFrom(cfg, label_list, content, chapter, i + 2)
    ELSE <<content[i]>> \o ReplaceFrom(cfg, label_list, content, chapter, i + 1)

RECURSIVE MatchStarts(_, _)
\* where the matches of one left-to-right scan start
MatchStarts(content, i) ==
    IF i > Len(content) THEN {}
    ELSE IF RefMatchAt(content, i) THEN {i} \cup MatchStarts(content, i + 2)
    ELSE MatchStarts(content, i + 1)

\* BloxProcessor::replace_refs: the new content and the warnings logged
replace_refs(cfg, label_list, content, chapter) ==
    [content |-> ReplaceFrom(cfg, label_list, content, chapter, 1),
     warnings |->
        {ResolveRef(cfg, label_list, content[i].kind, content[i].label,
                    chapter).warn[1] :
            i \in {j \in MatchStarts(content, 1) :
                     IsSome(ResolveRef(cfg, label_list, content[j].kind,
                                       content[j].label, chapter).warn)}}]


----------------------------------------------------------------------------
(* The books the run is given *)

\* the longest book, in sections
MaxSections == 2

W_blox == <<"b", "l", "o", "x">>
W_alert == <<"a", "l", "e", "r", "t">>
W_exercise == <<"e", "x", "e", "r", "c", "i", "s", "e">>
W_figure == <<"f", "i", "g", "u", "r", "e">>
W_plain == <<"p", "l", "a", "i", "n">>
W_bare == <<"b", "a", "r", "e">>

\* fence headers (the info string after the opening fence)
H_exercise == W_blox \o <<" ">> \o W_exercise
H_exercise_b == W_blox \o <<" ">> \o W_exercise \o <<" ", "label = 'b'">>
H_figure == W_blox \o <<" ">> \o W_figure
H_figure_a == W_blox \o <<" ">> \o W_figure \o <<" ", "label = 'a'">>
H_figure_a_deferred ==
    W_blox \o <<" ">> \o W_figure \o <<" ", "label = 'a', defer_rendering = true">>
H_alert == W_blox \o <<" ">> \o W_alert
H_rust == <<"r", "u", "s", "t">>
H_unregistered == W_blox \o <<" ", "z", "z">>
H_malformed == W_blox \o <<" ">> \o W_exercise \o <<" ", "label = ">>

\* one character of plain text
Txt == <<[b |-> "c", c |-> "t"]>>
\* a fenced region: its opening line, its body, its closing fence
Fence(header) ==
    <<[b |-> "fence", header |-> header], [b |-> "body"], [b |-> "endfence"]>>
\* {{ blox-render: <label> }}
Render(label) == <<[b |-> "{{render", label |-> label], [b |-> "}}"]>>
\* {{ blox-<kind>: <label> }}
Ref(kind, label) ==
    <<[b |-> "{{ref", kind |-> kind, label |-> label], [b |-> "}}"]>>

Chapter(content, numbered, has_path) ==
    [kind |-> "Chapter", content |-> content, numbered |-> numbered,
     has_path |-> has_path]

\* The sections a book is made of: a separator, a draft chapter, and chapters
\* that between them hold every kind of region, placeholder and reference.
SectionPool ==
    { [kind |-> "Separator"],
      Chapter(<<>>, FALSE, FALSE),
      Chapter(Txt, TRUE, TRUE),
      Chapter(Txt \o Fence(H_figure_a) \o Txt, TRUE, TRUE),
      Chapter(Fence(H_exercise) \o Fence(H_exercise), TRUE, TRUE),
      Chapter(Fence(H_exercise_b) \o Txt \o Fence(H_exercise), FALSE, TRUE),
      Chapter(Render("a") \o Txt, TRUE, TRUE),
      Chapter(Fence(H_figure_a) \o Render("a"), TRUE, TRUE),
      Chapter(Ref("nref", "a") \o Txt \o Ref("nref", "missing"), TRUE, TRUE),
      Chapter(Ref("Nref", "a") \o Txt, TRUE, TRUE),
      Chapter(Txt \o Fence(H_rust) \o Txt, TRUE, TRUE),
      Chapter(Fence(H_figure) \o Fence(H_alert) \o Fence(H_figure), TRUE, TRUE),
      Chapter(Fence(H_figure_a_deferred) \o Txt, TRUE, TRUE),
      Chapter(Render("a") \o Render("b"), TRUE, TRUE),
      Chapter(Render("a") \o Render("b") \o Txt \o Txt, TRUE, TRUE),
      Chapter(Fence(H_unregistered), TRUE, TRUE),
      Chapter(Fence(H_exercise) \o Fence(H_malformed), TRUE, TRUE) }

\* SectionNumber's Display: "<n>."
SectionNumberOf(i) == ToString(i) \o "."

\* chapter i's location relative to SUMMARY.md
PathOf(i) ==
    IF i % 2 = 1 THEN <<"c" \o ToString(i) \o ".md">>
    ELSE <<"part", "c" \o ToString(i) \o ".md">>

\* the section at place i of the book
SectionAt(entry, i) ==
    IF entry.kind = "Separator" THEN [kind |-> "Separator"]
    ELSE [kind |-> "Chapter",
          number |-> IF entry.numbered THEN Some(SectionNumberOf(i)) ELSE None,
          path |-> IF entry.has_path THEN Some(PathOf(i)) ELSE None,
          content |-> entry.content]

Books ==
    UNION { { [i \in 1..n |-> SectionAt(f[i], i)] : f \in [1..n -> SectionPool] } :
            n \in 0..MaxSections }

\* book_filter_iter: the first chapter after place i, or Len(b) + 1
NextChapter(b, i) ==
    LET later == {j \in (i + 1)..Len(b) : b[j].kind = "Chapter"}
    IN  IF later = {} THEN Len(b) + 1 ELSE MinOf(later)

----------------------------------------------------------------------------
(* BloxPreProcessor::run and BloxProcessor::process *)

EmptyMap == [x \in {} |-> <<>>]

Init ==
    /\ book \in Books
    /\ pc = "extract"
    /\ cur = NextChapter(book, 0)
    /\ pos = 1
    /\ anonymous_blox = <<>>
    /\ labelled_blox = EmptyMap
    /\ section_items = EmptyMap
    /\ number_map = EmptyMap
    /\ content_string = <<>>
    /\ new_content = EmptyMap
    /\ log = {}
    /\ result = "none"

\* process, lines 53-55: process_section on the next chapter; `?` returns
\* its error from process and from run
ProcessSection ==
    /\ pc = "extract"
    /\ cur <= Len(book)
    /\ \E r \in {process_section(config, anonymous_blox, labelled_blox,
                                 book[cur].content)} :
           \/ /\ r.tag = "Ok"
              /\ anonymous_blox' = r.anonymous_blox
              /\ labelled_blox' = r.labelled_blox
              /\ section_items' =
                    [id \in DOMAIN section_items \cup {cur} |->
                        IF id = cur THEN r.spanned ELSE section_items[id]]
              /\ cur' = NextChapter(book, cur)
              /\ UNCHANGED <<pc, result>>
           \/ /\ r.tag = "Err"
              /\ pc' = "failed"
              /\ result' = "err"
              /\ UNCHANGED <<cur, anonymous_blox, labelled_blox, section_items>>
           \/ /\ r.tag = "Panic"
              /\ pc' = "panicked"
              /\ UNCHANGED <<cur, result, anonymous_blox, labelled_blox,
                             section_items>>
    /\ UNCHANGED <<book, pos, number_map, content_string, new_content, log>>

\* numbering entered while chapters are still to be extracted
StartNumbering_Early ==
    /\ pc = "extract"
    /\ pc' = "number"
    /\ number_map' = NumberMapNew(config)
    /\ cur' = NextChapter(book, 0)
    /\ pos' = 1
    /\ UNCHANGED <<book, anonymous_blox, labelled_blox, section_items,
                   content_string, new_content, log, result>>

\* number_items is entered: NumberMap::new
StartNumbering ==
    /\ pc = "extract"
    /\ cur > Len(book)
    /\ pc' = "number"
    /\ number_map' = NumberMapNew(config)
    /\ cur' = NextChapter(book, 0)
    /\ pos' = 1
    /\ UNCHANGED <<book, anonymous_blox, labelled_blox, section_items,
                   content_string, new_content, log, result>>

\* the block a content item refers to: None for text and for a label no
\* block carries
BloxOfItem(item, anon_list, label_list) ==
    CASE item.tag = "AnonymousBlox" ->
            IF item.id + 1 \in DOMAIN anon_list THEN Some(anon_list[item.id + 1])
            ELSE None
      [] item.tag = "LabelledBlox" ->
            IF item.label \in DOMAIN label_list THEN Some(label_list[item.label])
            ELSE None
      [] OTHER -> None

\* one turn of `for book_content in items.iter_mut()`: the block afterwards,
\* the map afterwards and the warning logged
NumberBlox(nm, blox, chapter) ==
    LET r == set_blox(nm, blox, chapter.number)
    IN  [number_map |-> r.number_map,
         blox |-> IF IsSome(r.blox.label)
                  THEN [r.blox EXCEPT !.path = chapter.path] ELSE r.blox,
         warn |-> IF IsSome(r.blox.label) /\ IsSome(r.blox.path)
                  THEN {"Multiple paths to blox: " \o r.blox.label[1]} ELSE {}]

\* number_items, one content item of the chapter at cur
NumberItem ==
    /\ pc = "number"
    /\ cur <= Len(book)
    /\ cur \in DOMAIN section_items
    /\ pos <= Len(section_items[cur])
    /\ \E item \in {section_items[cur][pos].item} :
       \E found \in {BloxOfItem(item, anonymous_blox, labelled_blox)} :
           IF IsNone(found)
           THEN UNCHANGED <<anonymous_blox, labelled_blox, number_map, log>>
           ELSE \E r \in {NumberBlox(number_map, found[1], book[cur])} :
                    /\ number_map' = r.number_map
                    /\ log' = log \cup r.warn
                    /\ IF item.tag = "AnonymousBlox"
                       THEN /\ anonymous_blox' =
                                    [anonymous_blox EXCEPT ![item.id + 1] = r.blox]
                            /\ UNCHANGED labelled_blox
                       ELSE /\ labelled_blox' =
                                    [labelled_blox EXCEPT ![item.label] = r.blox]
                            /\ UNCHANGED anonymous_blox
    /\ pos' = pos + 1
    /\ UNCHANGED <<book, pc, cur, section_items, content_string, new_content,
                   result>>

\* number_items, the end of a chapter: number_map.reset.  A chapter without
\* items (`else { continue }`) is left before the reset.
NumberReset ==
    /\ pc = "number"
    /\ cur <= Len(book)
    /\ \/ cur \notin DOMAIN section_items
       \/ pos > Len(section_items[cur])
    /\ number_map' = IF cur \in DOMAIN section_items
                     THEN NumberMapReset(number_map, config) ELSE number_map
    /\ cur' = NextChapter(book, cur)
    /\ pos' = 1
    /\ UNCHANGED <<book, pc, anonymous_blox, labelled_blox, section_items,
                   content_string, new_content, log, result>>

\* number_items left while chapters are still to be numbered
FinishNumbering_Early ==
    /\ pc = "number"
    /\ pc' = "stringify"
    /\ cur' = NextChapter(book, 0)
    /\ new_content' = EmptyMap
    /\ UNCHANGED <<book, pos, anonymous_blox, labelled_blox, section_items,
                   number_map, content_string, log, result>>

\* number_items returns; process creates new_content and starts its loop
FinishNumbering ==
    /\ pc = "number"
    /\ cur > Len(book)
    /\ pc' = "stringify"
    /\ cur' = NextChapter(book, 0)
    /\ new_content' = EmptyMap
    /\ UNCHANGED <<book, pos, anonymous_blox, labelled_blox, section_items,
                   number_map, content_string, log, result>>

\* process, line 62: stringify_section of the chapter at cur
StringifySection ==
    /\ pc = "stringify"
    /\ cur <= Len(book)
    /\ content_string' = stringify_section(section_items[cur], config,
                                           anonymous_blox, labelled_blox)
    /\ pc' = "resolve"
    /\ UNCHANGED <<book, cur, pos, anonymous_blox, labelled_blox, section_items,
                   number_map, new_content, log, result>>

\* process, lines 63-64: replace_refs of the same chapter, then the insert
ReplaceRefs ==
    /\ pc = "resolve"
    /\ \E r \in {replace_refs(config, labelled_blox, content_string, book[cur])} :
           /\ new_content' =
                [id \in DOMAIN new_content \cup {cur} |->
                    IF id = cur THEN r.content ELSE new_content[id]]
           /\ log' = log \cup r.warnings
    /\ cur' = NextChapter(book, cur)
    /\ pc' = "stringify"
    /\ content_string' = <<>>
    /\ UNCHANGED <<book, pos, anonymous_blox, labelled_blox, section_items,
                   number_map, result>>

\* process returns Ok(new_content) and run writes it into the chapters
WriteBack ==
    /\ pc = "stringify"
    /\ cur > Len(book)
    /\ book' = [i \in 1..Len(book) |->
                    IF book[i].kind = "Chapter" /\ i \in DOMAIN new_content
                    THEN [book[i] EXCEPT !.content = new_content[i]]
                    ELSE book[i]]
    /\ pc' = "done"
    /\ result' = "ok"
    /\ UNCHANGED <<cur, pos, anonymous_blox, labelled_blox, section_items,
                   number_map, content_string, new_content, log>>

Next ==
    \/ ProcessSection
    \/ StartNumbering
    \/ NumberItem
    \/ NumberReset
    \/ FinishNumbering
    \/ StringifySection
    \/ ReplaceRefs
    \/ WriteBack

Spec == Init /\ [][Next]_vars

----------------------------------------------------------------------------
(* Blox::parse on one fenced region: books of one chapter that starts with   *)
(* a fenced region, over the headers below                                   *)

\* the characters of an environment's key
EnvWord ==
    [k \in Environments |->
        CASE k = "alert" -> W_alert
          [] k = "exercise" -> W_exercise
          [] k = "figure" -> W_figure
          [] k = "plain" -> W_plain
          [] k = "bare" -> W_bare]

\* the inline option texts that parse
OptionTexts == DOMAIN InlineToml

\* the header `blox <env>` or `blox <env> <options>`
Header(env, text) ==
    W_blox \o <<" ">> \o EnvWord[env]
        \o (IF text = "" THEN <<>> ELSE <<" ", text>>)

\* the keyword alone, with and without a trailing space
H_keyword == W_blox
H_keyword_space == W_blox \o <<" ">>
\* a look-alike of the keyword
H_lookalike == W_blox \o <<"x", " ">> \o W_alert

Headers ==
    {H_keyword, H_keyword_space, H_lookalike, H_rust, H_unregistered}
    \cup {Header(env, "") : env \in Environments}
    \cup {Header(env, text) : env \in Environments,
                              text \in OptionTexts \cup {"label = "}}

RECURSIVE Repeat(_, _)
\* text written n times
Repeat(text, n) == IF n = 0 THEN <<>> ELSE text \o Repeat(text, n - 1)

\* how many exercises the long chapter holds
ManyBlocks == 10

\* the books: a chapter that starts with one fenced region, for every header;
\* and a chapter without a number that holds exercise after exercise
HeaderBooks ==
    { <<SectionAt(Chapter(Fence(h) \o Txt, TRUE, TRUE), 1)>> : h \in Headers }
    \cup { <<SectionAt(Chapter(Repeat(Fence(H_exercise), ManyBlocks), FALSE, TRUE),
                       1)>> }

HeaderInit ==
    /\ book \in HeaderBooks
    /\ pc = "extract"
    /\ cur = NextChapter(book, 0)
    /\ pos = 1
    /\ anonymous_blox = <<>>
    /\ labelled_blox = EmptyMap
    /\ section_items = EmptyMap
    /\ number_map = EmptyMap
    /\ content_string = <<>>
    /\ new_content = EmptyMap
    /\ log = {}
    /\ result = "none"

HeaderSpec == HeaderInit /\ [][Next]_vars

----------------------------------------------------------------------------
(* replace_refs on one reference: books in which one chapter defines the     *)
(* block labelled a and one chapter refers to it                             *)

\* the option texts of the definitions of label a
RefDefTexts ==
    {"label = 'a'", "label = 'a', title = 'T'", "label = 'a', hide_name = true",
     "label = 'a', title = 'T', hide_name = true", "label = 'a', numbered = false",
     "label = 'a', title = 'T', numbered = false",
     "label = 'a', defer_rendering = true",
     "label = 'a', title = 'T', defer_rendering = true"}

RefDefEnvs == {"figure", "exercise"}

\* the kinds of the reference: the seven of the pattern and one outside it
RefKindsTried == RefKinds \cup {"xref"}

\* the chapter that defines a, the chapter that refers to it (and holds an
\* unlabelled block), a chapter that renders a once more
DefChapter(env, text) == Chapter(Fence(Header(env, text)) \o Txt, TRUE, TRUE)
RefChapterOf(kind) == Chapter(Ref(kind, "a") \o Txt \o Fence(H_alert), TRUE, TRUE)
RenderChapter == Chapter(Render("a") \o Txt, TRUE, TRUE)

\* the book made of the entries, each at its place
BookOf(entries) == [i \in 1..Len(entries) |-> SectionAt(entries[i], i)]

\* the layouts: one chapter for both; definition first; reference first; both
\* in the directory part; a third chapter that renders a again
RefLayouts(def, ref, kind) ==
    { BookOf(<<Chapter(def.content \o Ref(kind, "a") \o Txt, TRUE, TRUE)>>),
      BookOf(<<def, ref>>),
      BookOf(<<ref, def>>),
      BookOf(<<[kind |-> "Separator"], def, [kind |-> "Separator"], ref>>),
      BookOf(<<def, ref, RenderChapter>>) }

RefBooks ==
    UNION { RefLayouts(DefChapter(env, text), RefChapterOf(kind), kind) :
                env \in RefDefEnvs, text \in RefDefTexts, kind \in RefKindsTried }

RefInit ==
    /\ book \in RefBooks
    /\ pc = "extract"
    /\ cur = NextChapter(book, 0)
    /\ pos = 1
    /\ anonymous_blox = <<>>
    /\ labelled_blox = EmptyMap
    /\ section_items = EmptyMap
    /\ number_map = EmptyMap
    /\ content_string = <<>>
    /\ new_content = EmptyMap
    /\ log = {}
    /\ result = "none"

RefSpec == RefInit /\ [][Next]_vars


----------------------------------------------------------------------------
(* Vocabulary of the properties *)

Chapters == {i \in 1..Len(book) : book[i].kind = "Chapter"}

\* the run has not yet written new_content into the book: book is the input
InputIntact == pc # "done"

\* text holds the reference token {{ blox-<kind>: <label> }}
HasRef(text, kind, label) ==
    \E k \in 1..(Len(text) - 1) :
        /\ text[k].b = "{{ref"
        /\ text[k].kind = kind
        /\ text[k].label = label
        /\ text[k + 1].b = "}}"

\* text holds the formatted string str
HasStr(text, str) ==
    \E k \in 1..Len(text) : text[k].b = "str" /\ text[k].s = str

\* the content items of the whole book, in traversal order
AllItems ==
    ConcatAll([i \in 1..Len(book) |->
                  IF i \in DOMAIN section_items
                  THEN [j \in 1..Len(section_items[i]) |-> section_items[i][j].item]
                  ELSE <<>>])

\* the item names a block of environment env that is numbering-eligible
RefersEligible(item, env) ==
    /\ IsSome(BloxOfItem(item, anonymous_blox, labelled_blox))
    /\ BloxOfItem(item, anonymous_blox, labelled_blox)[1].environment = env
    /\ IsSome(BloxOfItem(item, anonymous_blox, labelled_blox)[1].number)

\* which block an item names
BlockKey(item) ==
    IF item.tag = "AnonymousBlox"
    THEN [registry |-> "anonymous", key |-> ToString(item.id)]
    ELSE [registry |-> "labelled", key |-> item.label]

\* the block holds a number the numbering pass assigned
Assigned(blox) == IsSome(blox.number) /\ blox.number[1] # ""

\* the block displays counter value k, bare or behind a chapter's number
CounterShown(blox, k) ==
    /\ IsSome(blox.number)
    /\ \/ blox.number[1] = ToString(k)
       \/ \E i \in 1..Len(book) : blox.number[1] = SectionNumberOf(i) \o ToString(k)

\* number_items has returned
NumberingOver == pc \in {"stringify", "resolve", "done"}

\* the numbering pass is at a content item
AtItem ==
    /\ pc = "number"
    /\ cur <= Len(book)
    /\ cur \in DOMAIN section_items
    /\ pos <= Len(section_items[cur])

----------------------------------------------------------------------------
(* C1 -- a reference to a label no block carries *)

\* C1: resolving {{blox-nref:missing}} when no block is labelled `missing`
\* leaves exactly the marker **[??blox-nref: missing??]** in the chapter, logs
\* a warning, and the run returns no error.
C1_MissingLabelMarker ==
    \A i \in DOMAIN new_content :
        (/\ InputIntact
         /\ HasRef(book[i].content, "nref", "missing")
         /\ "missing" \notin DOMAIN labelled_blox)
        => /\ HasStr(new_content[i], "**[??blox-nref: missing??]**")
           /\ log # {}
           /\ result # "err"

----------------------------------------------------------------------------
(* C2 -- numbering across the whole book *)

\* C2: for an environment with prefix_number = false, its numbering-eligible
\* blocks, taken in traversal order, display the counter values 1, 2, 3, ...
\* once the numbering pass is over: the k-th block displays k.
C2_GlobalCountersConsecutive ==
    NumberingOver =>
        \A env \in Environments :
            ~prefix_number(config, env) =>
                LET refs == SelectSeq(AllItems, LAMBDA it : RefersEligible(it, env))
                    firsts == {n \in 1..Len(refs) :
                                \A m \in 1..(n - 1) :
                                    BlockKey(refs[m]) # BlockKey(refs[n])}
                IN  \A n \in firsts :
                        CounterShown(
                            BloxOfItem(refs[n], anonymous_blox, labelled_blox)[1],
                            Cardinality({m \in firsts : m <= n}))

----------------------------------------------------------------------------
(* C3 -- numbering per chapter *)

\* how many items before place n of chapter i name an eligible block of env
EligibleBefore(i, n, env) ==
    Cardinality({m \in 1..(n - 1) : RefersEligible(section_items[i][m].item, env)})

\* the block an item names, in the registries after the step
BloxOfItemAfter(item) == BloxOfItem(item, anonymous_blox', labelled_blox')[1]

----------------------------------------------------------------------------
(* C4 -- a number is assigned once *)

\* C4: in the numbering pass a block that holds an assigned number keeps it,
\* and an item naming such a block does not advance the counter.
C4_NumberAssignedOnce ==
    [][/\ \A l \in DOMAIN labelled_blox :
            Assigned(labelled_blox[l])
            => /\ l \in DOMAIN labelled_blox'
               /\ labelled_blox'[l].number = labelled_blox[l].number
       /\ \A n \in DOMAIN anonymous_blox :
            Assigned(anonymous_blox[n])
            => /\ n \in DOMAIN anonymous_blox'
               /\ anonymous_blox'[n].number = anonymous_blox[n].number
       /\ (/\ AtItem
           /\ IsSome(BloxOfItem(section_items[cur][pos].item, anonymous_blox,
                                labelled_blox))
           /\ Assigned(BloxOfItem(section_items[cur][pos].item, anonymous_blox,
                                  labelled_blox)[1]))
          => number_map' = number_map]_vars

----------------------------------------------------------------------------
(* C5 -- the defining document of a block *)

\* C5: the first item that names a labelled block records the chapter as the
\* block's defining document; a later item naming it logs a conflict warning
\* and leaves the recorded document as it is.
C5_DefiningDocumentKept ==
    [][\A l \in DOMAIN labelled_blox :
          (/\ AtItem
           /\ section_items[cur][pos].item = new_labelled(l))
          => IF IsNone(labelled_blox[l].path)
             THEN labelled_blox'[l].path = book[cur].path
             ELSE /\ ("Multiple paths to blox: " \o l) \in log'
                  /\ labelled_blox'[l].path = labelled_blox[l].path]_vars

----------------------------------------------------------------------------
(* C6 -- the spans of a chapter's items *)

\* C6: after a chapter is extracted the spans of its items, in start order,
\* tile [0, length): none is empty, the first starts at 0, each starts where
\* the one before it ends, and the last ends at the chapter's length.
C6_SpansTile ==
    InputIntact =>
        \A i \in DOMAIN section_items :
            /\ \A j \in 1..Len(section_items[i]) :
                    section_items[i][j].span.start < section_items[i][j].span.end
            /\ \A j \in 1..(Len(section_items[i]) - 1) :
                    section_items[i][j].span.end = section_items[i][j + 1].span.start
            /\ section_items[i] # <<>> =>
                    /\ section_items[i][1].span.start = 0
                    /\ section_items[i][Len(section_items[i])].span.end =
                            Len(book[i].content)
            /\ section_items[i] = <<>> => book[i].content = <<>>

\* a chapter of text, a block and text again has been extracted into three items
C6_Witness ==
    /\ InputIntact
    /\ \E i \in DOMAIN section_items :
          /\ Len(section_items[i]) = 3
          /\ section_items[i][1].item.tag = "Other"
          /\ section_items[i][2].item.tag = "LabelledBlox"
          /\ section_items[i][3].item.tag = "Other"
          /\ section_items[i][3].span.end = Len(book[i].content)

----------------------------------------------------------------------------
(* C7 -- chapters without blocks *)

\* the header's first token is the keyword
KeywordHeader(header) ==
    /\ Len(header) > Len(W_blox)
    /\ SubSeq(header, 1, Len(W_blox) + 1) = W_blox \o <<" ">>

\* text has no fenced region that parses as a block
NoBlock(text) ==
    \A k \in 1..Len(text) : text[k].b = "fence" => ~KeywordHeader(text[k].header)

\* text has no fenced region at all
NoFence(text) == \A k \in 1..Len(text) : text[k].b # "fence"

\* text has no {{ blox-render: ... }} placeholder
NoPlaceholder(text) == \A k \in 1..Len(text) : text[k].b # "{{render"

\* the chapter at cur has just been stringified
JustStringified == pc = "resolve"

\* C7: a chapter with no fenced region that parses as a block stringifies to
\* its own text; an empty chapter has no items and a chapter with no blocks
\* has one literal item that spans it.
C7_IdentityWithoutBlocks ==
    (JustStringified /\ NoBlock(book[cur].content))
    => /\ content_string = book[cur].content
       /\ IF book[cur].content = <<>> THEN section_items[cur] = <<>>
          ELSE /\ Len(section_items[cur]) = 1
               /\ section_items[cur][1].item = OtherItem(book[cur].content)

\* C7 (amended): a chapter with no fenced region that parses as a block and no
\* render placeholder stringifies to its own text; an empty chapter has no
\* items; a chapter with no fenced region and no placeholder has one literal
\* item that spans it.
C7_IdentityWithoutBlocksOrPlaceholders ==
    (JustStringified /\ NoBlock(book[cur].content)
                     /\ NoPlaceholder(book[cur].content))
    => /\ content_string = book[cur].content
       /\ book[cur].content = <<>> => section_items[cur] = <<>>
       /\ (book[cur].content # <<>> /\ NoFence(book[cur].content))
          => /\ Len(section_items[cur]) = 1
             /\ section_items[cur][1].item = OtherItem(book[cur].content)
             /\ section_items[cur][1].span =
                    [start |-> 0, end |-> Len(book[cur].content)]

\* a chapter of text around a fenced region of another language has been
\* stringified from its three literal items
C7_Witness ==
    /\ JustStringified
    /\ NoBlock(book[cur].content)
    /\ NoPlaceholder(book[cur].content)
    /\ ~NoFence(book[cur].content)
    /\ Len(section_items[cur]) = 3
    /\ content_string = book[cur].content

----------------------------------------------------------------------------
(* C8 -- references to blocks of later chapters *)

\* every block an item names and that is eligible holds its number
NumberingComplete ==
    \A i \in DOMAIN section_items :
        \A j \in 1..Len(section_items[i]) :
            \A env \in Environments :
                RefersEligible(section_items[i][j].item, env)
                => Assigned(BloxOfItem(section_items[i][j].item, anonymous_blox,
                                       labelled_blox)[1])

\* resolution of some chapter has started
ResolutionStarted == pc = "resolve" \/ DOMAIN new_content # {}

\* every chapter is resolved and the book still holds the input
AllResolved == pc = "stringify" /\ cur > Len(book)

\* the text of chapter j's path
PathText(j) ==
    IF j % 2 = 1 THEN "c" \o ToString(j) \o ".md"
    ELSE "part/c" \o ToString(j) \o ".md"

\* the link from chapter i to the element id of chapter j
LinkTo(i, j, id) ==
    (IF i = j THEN ""
     ELSE IF i % 2 = 1 THEN PathText(j)
     ELSE IF j % 2 = 0 THEN "c" \o ToString(j) \o ".md"
     ELSE "../c" \o ToString(j) \o ".md") \o "#" \o id

\* chapter j holds the rendered block of label l with header text h
RenderedWithHeader(j, l, h) ==
    \E k \in 1..Len(new_content[j]) :
        /\ new_content[j][k].b = "html"
        /\ new_content[j][k].id = "blox-" \o labelled_blox[l].environment \o "-" \o l
        /\ new_content[j][k].header = Some(h)

\* chapter i, which refers to label l, shows number n: alone for Nref, in the
\* link text for nref
ShowsNumber(i, l, n) ==
    /\ HasRef(book[i].content, "Nref", l) => HasStr(new_content[i], n)
    /\ HasRef(book[i].content, "nref", l) =>
          \E j \in Chapters :
              HasStr(new_content[i],
                     "[" \o ConfigName(config, labelled_blox[l].environment)
                         \o " " \o n \o "]("
                         \o LinkTo(i, j, "blox-" \o labelled_blox[l].environment
                                           \o "-" \o l)
                         \o ")")

\* chapter i refers with nref or Nref to label l, which a later chapter j
\* places, and the block is numbered
ForwardReference(i, j, l) ==
    /\ i < j
    /\ HasRef(book[i].content, "Nref", l) \/ HasRef(book[i].content, "nref", l)
    /\ IsSome(book[i].path)
    /\ IsSome(book[j].path)
    /\ \E k \in 1..Len(section_items[j]) :
            section_items[j][k].item = new_labelled(l)
    /\ IsSome(labelled_blox[l].number)

\* C8: numbering is complete before any chapter is resolved, so a reference
\* of an earlier chapter to a numbered labelled block of a later chapter
\* shows the number that the block's header shows.
C8_ForwardReferenceResolves ==
    /\ ResolutionStarted => NumberingComplete
    /\ AllResolved =>
          \A i \in Chapters : \A j \in Chapters : \A l \in DOMAIN labelled_blox :
              ForwardReference(i, j, l)
              => /\ Assigned(labelled_blox[l])
                 /\ ShowsNumber(i, l, labelled_blox[l].number[1])
                 /\ RenderedWithHeader(j, l,
                        ConfigName(config, labelled_blox[l].environment)
                            \o " " \o labelled_blox[l].number[1])

\* the first chapter's Nref to figure a of the second chapter shows 2.1
C8_Witness ==
    /\ AllResolved
    /\ Len(book) = 2
    /\ 1 \in Chapters
    /\ 2 \in Chapters
    /\ "a" \in DOMAIN labelled_blox
    /\ ForwardReference(1, 2, "a")
    /\ HasRef(book[1].content, "Nref", "a")
    /\ HasStr(new_content[1], "2.1")
    /\ RenderedWithHeader(2, "a", "Figure 2.1")

----------------------------------------------------------------------------
(* C9 -- the order of the stages *)

Extracted(i) == i \in DOMAIN section_items
NumberingStarted == number_map # EmptyMap
Stringified(i) == (pc = "resolve" /\ cur = i) \/ i \in DOMAIN new_content
ResolvedChapter(i) == i \in DOMAIN new_content

\* C9: the four stages are strictly ordered over the whole book: no chapter
\* is numbered before every chapter is extracted, none is stringified before
\* every chapter is numbered, none is resolved before every chapter is
\* stringified.
C9_FourStagesStrict ==
    /\ NumberingStarted => \A i \in Chapters : Extracted(i)
    /\ (\E i \in Chapters : Stringified(i)) => NumberingComplete
    /\ (\E i \in Chapters : ResolvedChapter(i)) => \A i \in Chapters : Stringified(i)

\* C9 (amended): no chapter is numbered before every chapter is extracted and
\* none is stringified before every chapter is numbered; then, chapter by
\* chapter in book order, a chapter is stringified and resolved before the
\* next one is stringified.
C9_StagesThenPerChapter ==
    /\ NumberingStarted => \A i \in Chapters : Extracted(i)
    /\ (\E i \in Chapters : Stringified(i)) => NumberingComplete
    /\ \A i \in Chapters : \A j \in Chapters :
          (i < j /\ Stringified(j)) => ResolvedChapter(i)
    /\ \A i \in Chapters : ResolvedChapter(i) => Stringified(i)

\* the first chapter is resolved while the second is stringified and not yet
\* resolved
C9_Witness ==
    /\ pc = "resolve"
    /\ cur = 2
    /\ ResolvedChapter(1)
    /\ ~ResolvedChapter(2)
    /\ NumberingStarted

----------------------------------------------------------------------------
(* C10 -- a region that fails to parse *)

\* some chapter has a fenced region whose header names an unregistered
\* environment or gives malformed options
HasBadRegion ==
    \E i \in Chapters :
        \E k \in 1..Len(book[i].content) :
            /\ book[i].content[k].b = "fence"
            /\ book[i].content[k].header \in {H_unregistered, H_malformed}

\* C10: with such a region anywhere in the book the run does not succeed:
\* it never leaves extraction, it replaces no chapter's content, and when it
\* returns it returns an error.
C10_BadRegionFailsRun ==
    HasBadRegion
    => /\ pc \in {"extract", "failed", "panicked"}
       /\ pc = "extract" => cur <= Len(book)
       /\ pc = "failed" => result = "err"
       /\ result # "ok"
       /\ DOMAIN new_content = {}

\* the run has failed at the second chapter after extracting the first
C10_Witness ==
    /\ HasBadRegion
    /\ pc = "failed"
    /\ result = "err"
    /\ cur = 2
    /\ 1 \in DOMAIN section_items
    /\ Len(section_items[1]) > 0

----------------------------------------------------------------------------
(* Vocabulary of the properties of Blox::parse (HeaderSpec) *)

\* the header of the fenced region the book starts with
FirstHeader == book[1].content[1].header

\* the first chapter has been extracted and the book still holds the input
FirstExtracted == InputIntact /\ 1 \in DOMAIN section_items

\* the blocks of the two registries
ParsedBlocks ==
    {anonymous_blox[n] : n \in DOMAIN anonymous_blox}
    \cup {labelled_blox[l] : l \in DOMAIN labelled_blox}

\* text holds the markup of a rendered block
HasHtml(text) == \E k \in 1..Len(text) : text[k].b = "html"

----------------------------------------------------------------------------
(* C11 -- the keyword without an environment *)

\* C11: a fenced region whose header is the keyword alone, with or without a
\* trailing space, fails to parse: the chapter is not extracted and the run
\* does not succeed.
C11_KeywordAloneFails ==
    (InputIntact /\ FirstHeader \in {H_keyword, H_keyword_space})
    => /\ 1 \notin DOMAIN section_items
       /\ pc \in {"extract", "failed"}
       /\ pc = "failed" => result = "err"

----------------------------------------------------------------------------
(* C12 -- deferred blocks *)

\* the option text sets defer_rendering = true
DefersRendering(text) == text \in OptionTexts /\ InlineToml[text].defer_rendering

\* C12: a block with defer_rendering = true, labelled or not, is registered
\* and renders as nothing where it stands: a chapter that holds it and no
\* placeholder stringifies without any block markup.
C12_DeferredRendersNothingInPlace ==
    \A env \in Environments : \A text \in OptionTexts :
        (/\ JustStringified
         /\ FirstHeader = Header(env, text)
         /\ DefersRendering(text))
        => /\ ParsedBlocks # {}
           /\ ~HasHtml(content_string)

----------------------------------------------------------------------------
(* C13 -- a label defined twice *)

\* the labels the fenced regions of the model define, by header
DefinesLabel(header, l) ==
    /\ l = "a"
    /\ header \in {H_figure_a, H_figure_a_deferred}

\* the places (chapter, byte) of the fenced regions that define label l
Definitions(l) ==
    {d \in UNION {{<<i, k>> : k \in 1..Len(book[i].content)} : i \in Chapters} :
        /\ book[d[1]].content[d[2]].b = "fence"
        /\ DefinesLabel(book[d[1]].content[d[2]].header, l)}

\* the definition of l that comes last in traversal order
LastDefinition(l) ==
    CHOOSE d \in Definitions(l) :
        \A e \in Definitions(l) :
            e[1] < d[1] \/ (e[1] = d[1] /\ e[2] <= d[2])

\* C13: when two fenced regions define the same label, the registry holds
\* the one later in traversal order, a conflict warning has been logged by the
\* time numbering is over, and the run has not failed.
C13_RedefinitionWarns ==
    \A l \in {"a"} :
        (/\ InputIntact
         /\ NumberingOver
         /\ Cardinality(Definitions(l)) >= 2)
        => /\ l \in DOMAIN labelled_blox
           /\ labelled_blox[l].defer_rendering =
                (book[LastDefinition(l)[1]].content[LastDefinition(l)[2]].header
                    = H_figure_a_deferred)
           /\ ("Multiple paths to blox: " \o l) \in log
           /\ result # "err"

----------------------------------------------------------------------------
(* C14 -- labels are sanitised *)

\* the non-empty labels over the letters the model's label texts hold
CleanLabels ==
    {Concat(w) : w \in UNION {[1..n -> {"a", "b"}] : n \in 1..2}}

\* C14: every label stored on a parsed block is non-empty and made of ASCII
\* letters, digits, '_' and '-' only, whatever the header's label text.
C14_LabelsSanitised ==
    \A blox \in ParsedBlocks :
        IsSome(blox.label)
        => /\ blox.label[1] # ""
           /\ blox.label[1] \in CleanLabels

----------------------------------------------------------------------------
(* C15 -- numbering eligibility *)

\* what the option text sets; no text sets nothing
InlineOptions(text) ==
    IF text = "" THEN CodeBlockOptionsDefault ELSE InlineToml[text]

\* the environment's configured value of a boolean, or the process-wide default
EnvNumbered(env) ==
    UnwrapOr(config.environments[env].numbered, config.defaults.numbered)
EnvHideHeader(env) ==
    UnwrapOr(config.environments[env].hide_header, config.defaults.hide_header)

\* the block is numbering-eligible
Eligible(blox) == IsSome(blox.number)

\* C15: a block is eligible exactly when its effective hide_name is false and
\* its inline numbered option is true or the environment's numbered is true.
C15_EligibleByOr ==
    \A env \in Environments : \A text \in OptionTexts \cup {""} :
        (FirstExtracted /\ FirstHeader = Header(env, text))
        => \A blox \in ParsedBlocks :
              Eligible(blox) <=>
                 /\ ~blox.hide_name
                 /\ \/ InlineOptions(text).numbered = Some(TRUE)
                    \/ EnvNumbered(env)

\* C15 (amended): a block is eligible exactly when its effective hide_name is
\* false and its inline numbered option, or without one the environment's
\* numbered, is true; hide_header forces hide_name, so a block with a hidden
\* header or a hidden name is never eligible.
C15_EligibleByOverride ==
    \A env \in Environments : \A text \in OptionTexts \cup {""} :
        (FirstExtracted /\ FirstHeader = Header(env, text))
        => \A blox \in ParsedBlocks :
              /\ Eligible(blox) <=>
                    /\ ~blox.hide_name
                    /\ UnwrapOr(InlineOptions(text).numbered, EnvNumbered(env))
              /\ blox.hide_header => blox.hide_name
              /\ blox.hide_name => ~Eligible(blox)
              /\ InlineOptions(text).hide_header = Some(TRUE) => ~Eligible(blox)
              /\ InlineOptions(text).hide_name = Some(TRUE) => ~Eligible(blox)

\* an exercise block with hide_header = true, numbered = true has been parsed:
\* its name is hidden and it is not eligible
C15_Witness ==
    /\ FirstExtracted
    /\ FirstHeader = Header("exercise", "hide_header = true, numbered = true")
    /\ Len(anonymous_blox) = 1
    /\ anonymous_blox[1].hide_name
    /\ ~Eligible(anonymous_blox[1])

----------------------------------------------------------------------------
(* C16 -- the default of hide_header *)

\* C16: without an inline hide_header, a block's hide_header is the
\* environment's configured hide_header, or the process-wide default when the
\* environment sets none, whatever the environment's hide_name.
C16_HideHeaderDefault ==
    \A env \in Environments : \A text \in OptionTexts \cup {""} :
        (/\ FirstExtracted
         /\ FirstHeader = Header(env, text)
         /\ IsNone(InlineOptions(text).hide_header))
        => \A blox \in ParsedBlocks : blox.hide_header = EnvHideHeader(env)

----------------------------------------------------------------------------
(* Vocabulary of the properties of replace_refs (RefSpec) *)

\* the place (chapter, byte) of the book's reference token
RefPlace ==
    CHOOSE d \in UNION {{<<i, k>> : k \in 1..Len(book[i].content)} : i \in Chapters} :
        book[d[1]].content[d[2]].b = "{{ref"

\* the chapter that refers, and the kind it refers with
Referrer == RefPlace[1]
ReferenceKind == book[RefPlace[1]].content[RefPlace[2]].kind

\* the strings the resolver wrote into chapter i
Outputs(i) ==
    {new_content[i][k].s : k \in {n \in 1..Len(new_content[i]) :
                                     new_content[i][n].b = "str"}}

\* the resolver wrote exactly the string str for the reference
Output(str) == Outputs(Referrer) = {str}

\* the error markers of a reference of the given kind
Markers(kind) ==
    {"**[??blox-" \o kind \o ": " \o m \o "??]**" :
        m \in {"a", "Unknown blox ref", "Failed to get path to blox",
               "Blox does not have a title", "Blox does not have a number"}}

\* the resolver wrote an error marker for the reference
OutputIsMarker ==
    \E str \in Markers(ReferenceKind) : Output(str)

\* the element id of the block labelled l
ElementId(l) == "blox-" \o labelled_blox[l].environment \o "-" \o l

\* name, then the number if any, then the title if any
FullForm(blox) ==
    config.environments[blox.environment].name
        \o (IF IsSome(blox.number) THEN " " \o blox.number[1] ELSE "")
        \o (IF IsSome(blox.title) THEN ": " \o blox.title[1] ELSE "")

\* [text](link)
Linked(text, link) == "[" \o text \o "](" \o link \o ")"

\* what a reference of the kind to blox shows, link being its link
Shows(kind, blox, link) ==
    CASE kind = "Tref" ->
            IF IsSome(blox.title) THEN Output(blox.title[1]) ELSE OutputIsMarker
      [] kind = "Nref" ->
            IF IsSome(blox.number) THEN Output(blox.number[1]) ELSE OutputIsMarker
      [] kind = "lref" -> Output(link)
      [] kind = "tref" ->
            IF IsSome(blox.title)
            THEN Output(Linked(config.environments[blox.environment].name
                                    \o ": " \o blox.title[1], link))
            ELSE OutputIsMarker
      [] kind = "nref" ->
            IF IsSome(blox.number)
            THEN Output(Linked(config.environments[blox.environment].name
                                    \o " " \o blox.number[1], link))
            ELSE OutputIsMarker
      [] kind = "fref" -> Output(Linked(FullForm(blox), link))
      [] kind = "ref" ->
            IF ~blox.hide_name THEN Output(Linked(FullForm(blox), link))
            ELSE IF IsSome(blox.title) THEN Output(Linked(blox.title[1], link))
            ELSE OutputIsMarker

\* the chapters that place the block labelled l
Placers(l) ==
    {j \in DOMAIN section_items :
        \E k \in 1..Len(section_items[j]) :
            section_items[j][k].item = new_labelled(l)}

\* the chapter the block labelled l records as its own
RecordedChapter(l) ==
    CHOOSE j \in Chapters : book[j].path = labelled_blox[l].path

\* the link of the reference to the block labelled l, which records a chapter
LinkOfReference(l) == LinkTo(Referrer, RecordedChapter(l), ElementId(l))

----------------------------------------------------------------------------
(* C17 -- what each kind of reference shows *)

\* C17: a reference to a registered label shows what its kind says: Tref the
\* title, Nref the number, lref the link, tref `Name: Title` linked, nref
\* `Name Number` linked, fref the full form linked, ref the auto form linked;
\* an error marker stands only where the title or number asked for is missing.
C17_OutputByKind ==
    (/\ AllResolved
     /\ ReferenceKind \in RefKinds
     /\ "a" \in DOMAIN labelled_blox)
    => /\ IsSome(labelled_blox["a"].path)
          => Shows(ReferenceKind, labelled_blox["a"], LinkOfReference("a"))
       /\ (ReferenceKind = "Tref" /\ IsSome(labelled_blox["a"].title))
          => Output(labelled_blox["a"].title[1])

----------------------------------------------------------------------------
(* C18 -- a kind outside the seven *)

\* C18: a reference whose kind is none of the seven is resolved as a ref to
\* the same label would be.
C18_UnknownKindAsRef ==
    (/\ AllResolved
     /\ ReferenceKind \notin RefKinds
     /\ "a" \in DOMAIN labelled_blox
     /\ IsSome(labelled_blox["a"].path))
    => Shows("ref", labelled_blox["a"], LinkOfReference("a"))

----------------------------------------------------------------------------
(* C19 -- the path of a link *)

\* the first chapter, in traversal order, that places the block labelled l
FirstPlacer(l) == CHOOSE j \in Placers(l) : \A k \in Placers(l) : j <= k

\* C19: a ref to a block placed in chapter A, made from chapter B, links to
\* the relative path from B to A, and to the anchor alone when A is B.
C19_LinkPathToDefiningChapter ==
    (/\ AllResolved
     /\ ReferenceKind = "ref"
     /\ "a" \in DOMAIN labelled_blox
     /\ Placers("a") # {})
    => Shows("ref", labelled_blox["a"],
             LinkTo(Referrer, FirstPlacer("a"), ElementId("a")))

----------------------------------------------------------------------------
(* C20 -- element ids and anchors *)

\* the ids of the blocks rendered in chapter j
RenderedIds(j) ==
    {new_content[j][k].id : k \in {n \in 1..Len(new_content[j]) :
                                      new_content[j][n].b = "html"}}

\* the ids the items of chapter j call for: <group>-<label> for a labelled
\* block, the empty id for an unlabelled one
ItemIds(j) ==
    {ElementId(section_items[j][k].item.label) :
        k \in {n \in 1..Len(section_items[j]) :
                  /\ section_items[j][n].item.tag = "LabelledBlox"
                  /\ section_items[j][n].item.label \in DOMAIN labelled_blox}}
    \cup {"" : k \in {n \in 1..Len(section_items[j]) :
                         section_items[j][n].item.tag = "AnonymousBlox"}}

\* the forms a link-producing reference to the block labelled l can take,
\* to the anchor given
LinkForms(l, anchor) ==
    LET targets == {"", "c1.md", "c2.md", "c3.md", "c4.md", "part/c2.md",
                    "part/c4.md", "../c1.md", "../c3.md"}
        texts == {FullForm(labelled_blox[l])}
                 \cup {labelled_blox[l].title[k] : k \in DOMAIN labelled_blox[l].title}
                 \cup {config.environments[labelled_blox[l].environment].name
                            \o ": " \o labelled_blox[l].title[k] :
                          k \in DOMAIN labelled_blox[l].title}
                 \cup {config.environments[labelled_blox[l].environment].name
                            \o " " \o labelled_blox[l].number[k] :
                          k \in DOMAIN labelled_blox[l].number}
    IN  {t \o "#" \o anchor : t \in targets}
        \cup {Linked(text, t \o "#" \o anchor) : text \in texts, t \in targets}

\* C20: a labelled block is rendered with the element id <group>-<label>, an
\* unlabelled block with the empty id, and every link a reference produces
\* to a labelled block ends in '#' and that same id.
C20_ElementIdIsAnchor ==
    AllResolved
    => /\ \A j \in DOMAIN new_content : RenderedIds(j) = ItemIds(j)
       /\ (/\ ReferenceKind \in {"lref", "tref", "nref", "fref", "ref"}
           /\ "a" \in DOMAIN labelled_blox
           /\ ~OutputIsMarker)
          => \E str \in LinkForms("a", ElementId("a")) : Output(str)

\* the first chapter's nref to figure a of the second chapter links to the
\* id the figure is rendered with, and the unlabelled alert has the empty id
C20_Witness ==
    /\ AllResolved
    /\ Len(book) = 2
    /\ ReferenceKind = "nref"
    /\ Referrer = 1
    /\ Output("[Figure 2.1](part/c2.md#blox-figure-a)")
    /\ RenderedIds(2) = {"blox-figure-a"}
    /\ RenderedIds(1) = {""}

----------------------------------------------------------------------------
(* C21 -- the header of a rendered block *)

\* the items of the chapter at cur that name a block, in order
BlockItems ==
    SelectSeq(section_items[cur],
              LAMBDA it : IsSome(BloxOfItem(it.item, anonymous_blox, labelled_blox)))

\* the rendered blocks of the stringified chapter, in order
RenderedBlocks == SelectSeq(content_string, LAMBDA byte : byte.b = "html")

\* name unless hidden, then the number if any, then ": " and the title if any;
\* nothing when all three are missing
Composed(blox) ==
    LET name == IF blox.hide_name THEN ""
                ELSE config.environments[blox.environment].name
        number == IF IsSome(blox.number) THEN blox.number[1] ELSE ""
        front == name \o (IF name # "" /\ number # "" THEN " " ELSE "") \o number
    IN  IF front = "" THEN blox.title
        ELSE Some(front \o (IF IsSome(blox.title) THEN ": " \o blox.title[1]
                            ELSE ""))

\* the k-th rendered block of the chapter shows header
HeaderShown(k, header) ==
    /\ Len(RenderedBlocks) = Len(BlockItems)
    /\ k <= Len(RenderedBlocks)
    /\ RenderedBlocks[k].header = header

\* C21: the header is the name unless hidden, the number if assigned, ": "
\* and the title if present, and there is none when hide_header is set and
\* the block has no title; `blox alert` renders "Alert" and the exercise
\* numbered 10 renders "Exercise 10".
C21_HeaderUnlessHiddenUntitled ==
    JustStringified
    => \A k \in 1..Len(BlockItems) :
          HeaderShown(k,
             IF /\ BloxOfItem(BlockItems[k].item, anonymous_blox,
                              labelled_blox)[1].hide_header
                /\ IsNone(BloxOfItem(BlockItems[k].item, anonymous_blox,
                                     labelled_blox)[1].title)
             THEN None
             ELSE Composed(BloxOfItem(BlockItems[k].item, anonymous_blox,
                                      labelled_blox)[1]))

\* C21 (amended): the header is the name unless hidden, the number if
\* assigned, ": " and the title if present; there is none whenever
\* hide_header is set, with or without a title, and none when name, number and
\* title are all missing; `blox alert` renders "Alert" and the exercise
\* numbered 10 renders "Exercise 10".
C21_HeaderUnlessHidden ==
    JustStringified
    => /\ \A k \in 1..Len(BlockItems) :
             HeaderShown(k,
                IF BloxOfItem(BlockItems[k].item, anonymous_blox,
                              labelled_blox)[1].hide_header
                THEN None
                ELSE Composed(BloxOfItem(BlockItems[k].item, anonymous_blox,
                                         labelled_blox)[1]))
       /\ FirstHeader = Header("alert", "") => HeaderShown(1, Some("Alert"))
       /\ (Len(BlockItems) >= 10 /\ FirstHeader = H_exercise)
          => HeaderShown(10, Some("Exercise 10"))

\* the chapter of exercises is stringified and its last block shows its number
C21_Witness ==
    /\ JustStringified
    /\ Len(BlockItems) = ManyBlocks
    /\ HeaderShown(10, Some("Exercise 10"))
    /\ HeaderShown(1, Some("Exercise 1"))

----------------------------------------------------------------------------
(* C22 -- one counter per environment for anonymous and labelled blocks *)

\* the item at position n of the chapter at cur
ItemAt(n) == section_items[cur][n].item

\* the items at positions m and n name blocks of different registries
OtherRegistry(m, n) == BlockKey(ItemAt(m)).registry # BlockKey(ItemAt(n)).registry

\* C22: anonymous and labelled blocks of an environment count on one counter:
\* whenever the numbering pass numbers an eligible block, labelled or
\* anonymous, the block receives the counter of its environment and the
\* counter advances by one, and no eligible block of the other registry and
\* the same environment named earlier in the chapter holds the same number.
C22_SharedCounter ==
    [][\A env \in Environments :
          (/\ AtItem
           /\ RefersEligible(ItemAt(pos), env))
          => /\ number_map'[env] = number_map[env] + 1
             /\ BloxOfItemAfter(ItemAt(pos)).number =
                   Some(UnwrapOr(book[cur].number, "")
                        \o ToString(number_map[env]))
             /\ \A m \in 1..(pos - 1) :
                   (/\ RefersEligible(ItemAt(m), env)
                    /\ OtherRegistry(m, pos))
                   => BloxOfItemAfter(ItemAt(m)).number
                        # BloxOfItemAfter(ItemAt(pos)).number
      ]_vars

\* a chapter is numbered through: its labelled exercise holds a counter value
\* and the anonymous exercise after it holds the next one
C22_Witness ==
    /\ pc = "number"
    /\ cur \in DOMAIN section_items
    /\ pos > Len(section_items[cur])
    /\ \E m, n \in 1..Len(section_items[cur]) :
          /\ m < n
          /\ ItemAt(m).tag = "LabelledBlox"
          /\ ItemAt(n).tag = "AnonymousBlox"
          /\ RefersEligible(ItemAt(m), "exercise")
          /\ RefersEligible(ItemAt(n), "exercise")
          /\ \E k \in 1..3 :
                /\ CounterShown(BloxOfItem(ItemAt(m), anonymous_blox,
                                           labelled_blox)[1], k)
                /\ CounterShown(BloxOfItem(ItemAt(n), anonymous_blox,
                                           labelled_blox)[1], k + 1)

----------------------------------------------------------------------------
(* C23 -- fenced regions of other languages *)

RECURSIVE FirstToken(_)
\* the header up to its first space
FirstToken(header) ==
    IF header = <<>> \/ header[1] = " " THEN <<>>
    ELSE <<header[1]>> \o FirstToken(Tail(header))

\* C23: a fenced region whose header has another first token than the
\* keyword, be it another language or the keyword with a suffix, is no block
\* and no error: the run does not fail, the registries stay empty, the
\* region is kept as one literal item, and the chapter's text comes out as it
\* went in.
C23_OtherHeaderIsLiteral ==
    (InputIntact /\ FirstToken(FirstHeader) # W_blox)
    => /\ pc \notin {"failed", "panicked"}
       /\ result # "err"
       /\ anonymous_blox = <<>>
       /\ DOMAIN labelled_blox = {}
       /\ 1 \in DOMAIN section_items
          => /\ section_items[1][1].item = OtherItem(Fence(FirstHeader))
             /\ section_items[1][1].span = [start |-> 0, end |-> 3]
       /\ JustStringified => content_string = book[1].content
       /\ AllResolved => new_content[1] = book[1].content

\* the chapter that starts with a `bloxx alert` region has come out as it went
\* in, and no block was registered
C23_Witness ==
    /\ AllResolved
    /\ FirstHeader = H_lookalike
    /\ new_content[1] = Fence(H_lookalike) \o Txt
    /\ anonymous_blox = <<>>
    /\ DOMAIN labelled_blox = {}

----------------------------------------------------------------------------
(* C24 -- the chapter's number in front of the counter *)

\* C24: an eligible block receives its counter value behind the chapter's
\* number only where prefixing applies: in an environment with
\* prefix_number = false, and in a chapter without a number, it receives the
\* bare counter value.
C24_PrefixOnlyWhereItApplies ==
    [][\A env \in Environments :
          (/\ AtItem
           /\ RefersEligible(ItemAt(pos), env))
          => BloxOfItemAfter(ItemAt(pos)).number =
                Some((IF prefix_number(config, env)
                      THEN UnwrapOr(book[cur].number, "") ELSE "")
                     \o ToString(number_map[env]))
      ]_vars

----------------------------------------------------------------------------
(* C25 -- labelled blocks after the numbering pass *)

\* the marker and the warning of a reference that found no path to its block
NoPathMarker == replace_refs_error("Failed to get path to blox", ReferenceKind, "a")

\* C25: once the numbering pass is over every labelled block records its
\* defining chapter and, if it is eligible, holds a number that is not empty,
\* deferred blocks that no placeholder names included; so no reference to a
\* registered label ends as the error marker of a missing path.
C25_LabelledBlocksPlaced ==
    /\ NumberingOver
       => \A l \in DOMAIN labelled_blox :
             /\ IsSome(labelled_blox[l].path)
             /\ IsSome(labelled_blox[l].number) => Assigned(labelled_blox[l])
    /\ (AllResolved /\ "a" \in DOMAIN labelled_blox)
       => /\ NoPathMarker.text \notin Outputs(Referrer)
          /\ NoPathMarker.warn[1] \notin log


====
